---- MODULE Spec2Model ----
(***************************************************************************)
(* Model of the ARIMA forecasting pipeline of pages/utils/model_train.py   *)
(* and of the page script pages/Stock_Prediction.py that drives it.        *)
(*                                                                         *)
(* Four specifications share the variables:                                *)
(*   SpecSelect  one call of _best_arima_order, one loop iteration a step  *)
(*   SpecDiff    one call of get_differencing_order, one iteration a step  *)
(*   Spec        one run of the page script: load, evaluate, forecast      *)
(*   SpecScale   scaling, inverse_scaling and the forecast band, on values *)
(* The library calls (ARIMA.fit, adfuller) are oracles: each call draws    *)
(* its outcome from a small set of the outcomes the library can produce.   *)
(***************************************************************************)
EXTENDS Integers, Sequences, FiniteSets, TLC

VARIABLES
    \* ---- _best_arima_order (model_train.py 73-95)
    sel_d,        \* the parameter d
    sel_i,        \* position of the nested loops, 1..NumCand+1 (flattened)
    best,         \* [aic, order]: the locals best_aic and best_order
    fitLog,       \* history: every ARIMA(...).fit() attempted, in order
    selPc,        \* "idle" | "loop" | "returned"
    sel_ret,      \* the returned tuple, NoOrder before the return
    \* ---- get_differencing_order (model_train.py 33-42)
    adf,          \* oracle: adfuller's outcome on the input differenced k times
    series,       \* the local series: [len, ndiff] (its length, diffs applied)
    constant,     \* whether the values of the input series are all equal
    df_d,         \* the local d
    df_iter,      \* iterations of `for _ in range(3)` completed
    pLog,         \* history: [ndiff, p] of every stationary_check that returned
    diffPc,       \* "idle" | "loop" | "returned" | "raised"
    df_ret,       \* the returned d, NoValue before the return
    \* ---- the page script (Stock_Prediction.py 67-107) and what it calls
    n,            \* number of rows of rolling_price / scaled_data
    lastDate,     \* day of the latest timestamp of the loaded series
    scaler,       \* "none" | "fitted": the MinMaxScaler returned by scaling
    d_order,      \* the page's d_order, NoValue before it is computed
    pagePc,       \* "load" | "evaluate" | "forecast" | "frames" | "inverse"
                  \* | "inverseLower" | "inverseUpper" | "present"
                  \* | "presented" | "stopped"
    failedAt,     \* "" | "load" | "train": the except clause that stopped the page
    rmse,         \* "none" | "value": the page's rmse
    fitCount,     \* history: ARIMA fits attempted so far in the run
    finalFits,    \* history: final fits of fit_model: [stage, order, len, ok]
    pending,      \* what fit_model returned to get_forecast, NoFit otherwise
    clock,        \* the day datetime.now() gave get_forecast, NoValue before
    genIndex,     \* the index pd.date_range generated, before trimming
    forecast_df,  \* [idx, nclose] or NoFrame
    conf_df,      \* [idx, nlower, nupper] or NoFrame
    arima_order,  \* the order get_forecast returned, NoOrder before
    unit,         \* column -> "none" | "scaled" | "dollars": the scale of the
                  \* values held in forecast_df / conf_df
    shown,        \* column -> the scale in which the page rendered it, "none"
                  \* while the forecast is not rendered
    \* ---- scaling, inverse_scaling (model_train.py 59-66) and the values of
    \* ---- the forecast band (fit_model 113-115, get_forecast 149-154)
    close_price,  \* the argument of scaling: a sequence of prices
    scalePc,      \* "idle" | "scale" | "scaled" | "raised" | "inverted"
                  \* | "rejected" | "forecast" | "dollars"
    scaled,       \* what scaling returned: the scaled values (ratios)
    own_scaler,   \* what scaling returned: the fitted scaler
    inv_scaler,   \* the scaler a call of inverse_scaling was given
    inv_values,   \* the values that call returned
    band,         \* column -> values of forecast_df / conf_df, scaled
    band_dollars  \* column -> values after page lines 101-103

selVars  == <<sel_d, sel_i, best, fitLog, selPc, sel_ret>>
diffVars == <<adf, constant, series, df_d, df_iter, pLog, diffPc, df_ret>>
pageVars == <<n, lastDate, scaler, d_order, pagePc, failedAt, rmse, fitCount,
              finalFits, pending, clock, genIndex, forecast_df, conf_df,
              arima_order, unit, shown>>
scaleVars == <<close_price, scalePc, scaled, own_scaler, inv_scaler, inv_values,
               band, band_dollars>>
vars     == <<selVars, diffVars, pageVars, scaleVars>>

(***************************************************************************)
(* Floats.  A float is a finite number, +inf or NaN.  Every ordered        *)
(* comparison with NaN is False, as in IEEE 754 and Python.                *)
(***************************************************************************)
Num(v) == [kind |-> "num", v |-> v]
Inf    == [kind |-> "inf", v |-> 0]
NaN    == [kind |-> "nan", v |-> 0]

\* Python's a < b on floats
Lt(a, b) ==
    CASE a.kind = "nan" \/ b.kind = "nan" -> FALSE
      [] a.kind = "inf"                   -> FALSE
      [] b.kind = "inf"                   -> TRUE
      [] OTHER                            -> a.v < b.v

\* Python's a <= b on floats
Le(a, b) ==
    CASE a.kind = "nan" \/ b.kind = "nan" -> FALSE
      [] b.kind = "inf"                   -> TRUE
      [] a.kind = "inf"                   -> FALSE
      [] OTHER                            -> a.v <= b.v

(***************************************************************************)
(* _best_arima_order                                                       *)
(***************************************************************************)
\* Number of distinct finite AIC values a fit may report.
MaxAIC == 1

\* The cap of the differencing search: d is in 0..MAX_DIFF.
MAX_DIFF == 3

DOrders == 0..MAX_DIFF

\* The values of d a call of _best_arima_order is started with: the smallest
\* and the largest order (d is only copied into the candidate orders).
SelDOrders == {0, MAX_DIFF}

p_candidates == <<5, 10, 20>>
q_candidates == <<0, 5, 10>>

NumCand == Len(p_candidates) * Len(q_candidates)

\* The (p, q) pairs in the order of `for p in p_candidates: for q in q_candidates`
Candidates ==
    [i \in 1..NumCand |->
        [p |-> p_candidates[((i - 1) \div Len(q_candidates)) + 1],
         q |-> q_candidates[((i - 1) % Len(q_candidates)) + 1]]]

Cand(i) == Candidates[i]

\* Outcome of ARIMA(data, order).fit(): an exception, or a result whose .aic
\* is a float.  A result's aic can be non-finite (a NaN log-likelihood).
FitFail      == [ok |-> FALSE, aic |-> NaN]
FitOk(a)     == [ok |-> TRUE, aic |-> a]
AICValues    == {Num(v) : v \in 1..MaxAIC} \cup {NaN}
FitOutcomes  == {FitFail} \cup {FitOk(a) : a \in AICValues}

NoOrder == <<>>

\* (mutation: a tie replaces the current best)
TryCandidate_TieReplaces(b, c, d, out) ==
    IF out.ok /\ Le(out.aic, b.aic)
    THEN [aic |-> out.aic, order |-> <<c.p, d, c.q>>]
    ELSE b

\* (mutation: the fallback is the first candidate of the grid)
InitBest_FirstCandidate(d) == [aic |-> Inf, order |-> <<5, d, 0>>]

\* (mutation: the fallback is an order outside the grid)
InitBest_OutsideGrid(d) == [aic |-> Inf, order |-> <<15, d, 10>>]

\* best_aic = np.inf ; best_order = (20, d, 10)
InitBest(d) == [aic |-> Inf, order |-> <<20, d, 10>>]

\* The body of the inner loop: the try block and its except clause.
TryCandidate(b, c, d, out) ==
    IF out.ok /\ Lt(out.aic, b.aic)
    THEN [aic |-> out.aic, order |-> <<c.p, d, c.q>>]
    ELSE b

\* (mutation: a failed fit ends the search)
Advance_AbortOnFailure(i, out) == IF out.ok THEN i + 1 ELSE NumCand + 1

\* Where the loops go after one candidate: `continue` and the normal end of
\* the body both go on to the next candidate.
Advance(i, out) == i + 1

InitSelectVars ==
    /\ sel_d \in SelDOrders
    /\ sel_i = 1
    /\ best = InitBest(sel_d)
    /\ fitLog = <<>>
    /\ selPc = "loop"
    /\ sel_ret = NoOrder

IdleSelectVars ==
    /\ sel_d = 0
    /\ sel_i = 1
    /\ best = InitBest(0)
    /\ fitLog = <<>>
    /\ selPc = "idle"
    /\ sel_ret = NoOrder

\* One iteration of the inner loop on candidate i with the fit's outcome out:
\* the new loop position and best, and the fit that was attempted.
GridBody(i, b, d, out) ==
    LET c == Cand(i) IN
    [i    |-> Advance(i, out),
     best |-> TryCandidate(b, c, d, out),
     fit  |-> [p |-> c.p, q |-> c.q, out |-> out]]

\* One iteration of the inner loop; after the last one, `return best_order`.
GridStep ==
    /\ selPc = "loop"
    /\ sel_i <= NumCand
    /\ \E out \in FitOutcomes :
         LET r == GridBody(sel_i, best, sel_d, out) IN
             /\ fitLog' = Append(fitLog, r.fit)
             /\ best' = r.best
             /\ sel_i' = r.i
             /\ IF r.i > NumCand
                THEN selPc' = "returned" /\ sel_ret' = r.best.order
                ELSE selPc' = "loop" /\ sel_ret' = sel_ret
    /\ UNCHANGED sel_d

\* A whole call of _best_arima_order, given the outcome res[i] of the fit of
\* each candidate i: the order returned and the number of fits attempted.
RECURSIVE GridRun(_, _, _, _, _)
GridRun(i, b, d, res, fits) ==
    IF i > NumCand
    THEN [order |-> b.order, fits |-> fits]
    ELSE LET r == GridBody(i, b, d, res[i])
         IN  GridRun(r.i, r.best, d, res, fits + 1)

best_arima_order(res, d) == GridRun(1, InitBest(d), d, res, 0)

(***************************************************************************)
(* stationary_check and get_differencing_order                             *)
(***************************************************************************)
\* 0.05, in units of 1e-4 (the precision stationary_check rounds to)
ALPHA == 500

NoValue == 0 - 1

\* adfuller's p-value before rounding, in units of 1e-5:
\* 0, 0.05004, 0.05006 and 1.
RawPValues == {0, 5004, 5006, 100000}

\* adfuller's outcome: an exception, or a p-value (NaN on degenerate input)
AdfRaise   == [raised |-> TRUE, p |-> NaN]
AdfP(x)    == [raised |-> FALSE, p |-> x]
AdfOutcomes == {AdfRaise, AdfP(NaN)} \cup {AdfP(Num(r)) : r \in RawPValues}

\* adfuller on a series whose values are all equal (its differences are all
\* zero, so equal again): the regression is degenerate.  The library either
\* rejects the input ("x is constant") or reports a NaN statistic and p-value.
AdfConstantOutcomes == {AdfRaise, AdfP(NaN)}

\* The tests a call can make, and one more (never read by the code).
DiffTests == 0..MAX_DIFF

\* Lengths of the input series
DiffLens == {0, 2, 40}

\* round(x, 4) of a value in units of 1e-5, in units of 1e-4 (no value of
\* RawPValues is a tie); round(nan, 4) is nan.
Round4(x) == IF x.kind = "num" THEN Num((x.v + 5) \div 10) ELSE x

\* series.diff().dropna(): one value fewer, one more difference applied
Diff(s) == [len |-> IF s.len > 0 THEN s.len - 1 ELSE 0, ndiff |-> s.ndiff + 1]

\* adfuller(series): raises on an empty series, else what the oracle o says
AdfullerOn(o, s) == IF s.len = 0 THEN AdfRaise ELSE o[s.ndiff]

Adfuller(s) == AdfullerOn(adf, s)

\* stationary_check: round(result[1], 4)
stationary_check(res) == Round4(res.p)

\* (mutation: strict comparison with 0.05)
IsStationary_Strict(p) == Lt(p, Num(ALPHA))

\* the test of line 38: stationary_check(series) <= 0.05
IsStationary(p) == Le(p, Num(ALPHA))

\* (mutation: one more iteration than the cap)
InRange_OneMore(iter) == iter <= MAX_DIFF

\* `for _ in range(3)`: another iteration is due
InRange(iter) == iter < MAX_DIFF

InitDiffVars ==
    /\ constant \in BOOLEAN
    /\ adf \in [DiffTests -> IF constant THEN AdfConstantOutcomes ELSE AdfOutcomes]
    /\ \E len \in DiffLens : series = [len |-> len, ndiff |-> 0]
    /\ df_d = 0
    /\ df_iter = 0
    /\ pLog = <<>>
    /\ diffPc = "loop"
    /\ df_ret = NoValue

IdleDiffVars ==
    /\ adf = [k \in DiffTests |-> AdfRaise]
    /\ constant = FALSE
    /\ series = [len |-> 0, ndiff |-> 0]
    /\ df_d = 0
    /\ df_iter = 0
    /\ pLog = <<>>
    /\ diffPc = "idle"
    /\ df_ret = NoValue

\* One iteration of the loop of get_differencing_order on the local state
\* st = [series, d, iter], with the return that follows a break or the last
\* iteration: the new local state, the outcome pc and the value tested.
DiffBody(o, st) ==
    LET res == AdfullerOn(o, st.series) IN
    IF res.raised
    THEN [series |-> st.series, d |-> st.d, iter |-> st.iter,
          pc |-> "raised", tested |-> <<>>]
    ELSE LET p == stationary_check(res)
             t == <<[ndiff |-> st.series.ndiff, p |-> p]>>
         IN  IF IsStationary(p)
             THEN [series |-> st.series, d |-> st.d, iter |-> st.iter,
                   pc |-> "returned", tested |-> t]
             ELSE [series |-> Diff(st.series), d |-> st.d + 1, iter |-> st.iter + 1,
                   pc |-> IF InRange(st.iter + 1) THEN "loop" ELSE "returned",
                   tested |-> t]

DiffIterate ==
    /\ diffPc = "loop"
    /\ InRange(df_iter)
    /\ LET r == DiffBody(adf, [series |-> series, d |-> df_d, iter |-> df_iter]) IN
         /\ series' = r.series
         /\ df_d' = r.d
         /\ df_iter' = r.iter
         /\ diffPc' = r.pc
         /\ pLog' = pLog \o r.tested
         /\ df_ret' = IF r.pc = "returned" THEN r.d ELSE df_ret
    /\ UNCHANGED <<adf, constant>>

\* A whole call of get_differencing_order on a series of length len, given
\* adfuller's outcomes o: [raised, d].
RECURSIVE DiffRun(_, _)
DiffRun(o, st) ==
    IF ~InRange(st.iter)
    THEN [raised |-> FALSE, d |-> st.d]
    ELSE LET r == DiffBody(o, st) IN
         CASE r.pc = "raised"   -> [raised |-> TRUE, d |-> NoValue]
           [] r.pc = "returned" -> [raised |-> FALSE, d |-> r.d]
           [] OTHER             -> DiffRun(o, r)

get_differencing_order(o, len) ==
    DiffRun(o, [series |-> [len |-> len, ndiff |-> 0], d |-> 0, iter |-> 0])

(***************************************************************************)
(* fit_model, evaluate_model, get_forecast and the page script             *)
(***************************************************************************)
\* Number of days the clock may be ahead of the latest timestamp of the data.
MaxStale == 3

\* evaluate_model holds out the last 30 observations and forecasts 30 steps
HOLDOUT == 30

\* (mutation: get_forecast asks for 31 steps)
steps_31 == 30 + 1

\* get_forecast: steps = 30
steps == 30

NoFit   == [order |-> NoOrder, npred |-> 0, nconf |-> 0]
NoFrame == [idx |-> <<>>, ncols |-> 0]

\* Lengths of the loaded series: empty, shorter than the holdout, longer than
\* the holdout but shorter than holdout + largest lag, and long.
PipeLens == {0, 25, 45, 300}

\* The outcomes of the 9 fits of one grid search, in the page run: every
\* pattern of failures and successes (one AIC value).
PipeGridResults == [1..NumCand -> {FitFail, FitOk(Num(1))}]

AllFail == [i \in 1..NumCand |-> FitFail]

\* What _best_arima_order can return for each d, over PipeGridResults and
\* when every fit fails.
GridReturns ==
    [d \in DOrders |-> {best_arima_order(res, d) : res \in PipeGridResults}]
GridReturnsAllFail ==
    [d \in DOrders |-> {best_arima_order(AllFail, d)}]

\* The fits a series of length len allows: nothing can be fitted to no data.
GridReturnsFor(len, d) == IF len = 0 THEN GridReturnsAllFail[d] ELSE GridReturns[d]
FinalOutcomesFor(len) == IF len = 0 THEN {FALSE} ELSE BOOLEAN

\* Days are numbered from a Monday: day x is a business day iff x % 7 < 5.
IsBDay(x) == x % 7 < 5

\* the first business day on or after x
RollForward(x) == IF IsBDay(x) THEN x ELSE IF x % 7 = 5 THEN x + 2 ELSE x + 1

\* (mutation: calendar days, freq="D")
RECURSIVE date_range_B_Daily(_, _)
date_range_B_Daily(start, periods) ==
    IF periods = 0 THEN <<>>
    ELSE <<start>> \o date_range_B_Daily(start + 1, periods - 1)

\* pd.date_range(start=start, periods=periods, freq="B"): `periods` business
\* days, the first one the first business day on or after start
RECURSIVE date_range_B(_, _)
date_range_B(start, periods) ==
    IF periods = 0 THEN <<>>
    ELSE LET f == RollForward(start)
         IN  <<f>> \o date_range_B(f + 1, periods - 1)

\* seq[:k]
Take(seq, k) == SubSeq(seq, 1, IF k < Len(seq) THEN k ELSE Len(seq))

\* original_price[:-30] and original_price[-30:], as lengths
TrainLen(len) == IF len > HOLDOUT THEN len - HOLDOUT ELSE 0
TestLen(len)  == IF len > HOLDOUT THEN HOLDOUT ELSE len

\* (mutation: a failed final fit is retried with the fallback order)
fit_model_RetryFallback(len, d, nsteps, sel, finalOk, stage) ==
    LET first == [stage |-> stage, order |-> sel.order, len |-> len, ok |-> finalOk]
    IN  IF finalOk
        THEN [raised |-> FALSE, order |-> sel.order, fits |-> sel.fits + 1,
              finals |-> <<first>>, npred |-> nsteps, nconf |-> nsteps]
        ELSE [raised |-> FALSE, order |-> InitBest(d).order, fits |-> sel.fits + 2,
              finals |-> <<first, [stage |-> stage, order |-> InitBest(d).order,
                                   len |-> len, ok |-> TRUE]>>,
              npred |-> nsteps, nconf |-> nsteps]

\* (mutation: the forecast's call reuses the order and fits only once)
fit_model_ReusesOrder(len, d, nsteps, sel, finalOk, stage) ==
    LET final == [stage |-> stage, order |-> sel.order, len |-> len, ok |-> finalOk]
    IN  [raised |-> ~finalOk,
         order  |-> sel.order,
         fits   |-> IF stage = "forecast" THEN 1 ELSE sel.fits + 1,
         finals |-> <<final>>,
         npred  |-> IF finalOk THEN nsteps ELSE 0,
         nconf  |-> IF finalOk THEN nsteps ELSE 0]

\* fit_model(data, d, steps) on data of length len, given what its call of
\* _best_arima_order returned (sel) and the outcome finalOk of the fit with
\* the chosen order: whether it raised, the order, the fits attempted, the
\* final fit, and the lengths of predicted_mean and conf_int.
fit_model(len, d, nsteps, sel, finalOk, stage) ==
    LET final == [stage |-> stage, order |-> sel.order, len |-> len, ok |-> finalOk]
    IN  [raised |-> ~finalOk,
         order  |-> sel.order,
         fits   |-> sel.fits + 1,
         finals |-> <<final>>,
         npred  |-> IF finalOk THEN nsteps ELSE 0,
         nconf  |-> IF finalOk THEN nsteps ELSE 0]

\* The columns of the forecast: forecast_df["Close"], conf_df["Lower"],
\* conf_df["Upper"].
Columns == {"Close", "Lower", "Upper"}
NoColumns == [c \in Columns |-> "none"]

InitPageVars ==
    /\ n \in PipeLens
    /\ lastDate = NoValue
    /\ scaler = "none"
    /\ d_order = NoValue
    /\ pagePc = "load"
    /\ failedAt = ""
    /\ rmse = "none"
    /\ fitCount = 0
    /\ finalFits = <<>>
    /\ pending = NoFit
    /\ clock = NoValue
    /\ genIndex = <<>>
    /\ forecast_df = NoFrame
    /\ conf_df = NoFrame
    /\ arima_order = NoOrder
    /\ unit = NoColumns
    /\ shown = NoColumns

IdlePageVars ==
    /\ n = 0
    /\ lastDate = NoValue
    /\ scaler = "none"
    /\ d_order = NoValue
    /\ pagePc = "idle"
    /\ failedAt = ""
    /\ rmse = "none"
    /\ fitCount = 0
    /\ finalFits = <<>>
    /\ pending = NoFit
    /\ clock = NoValue
    /\ genIndex = <<>>
    /\ forecast_df = NoFrame
    /\ conf_df = NoFrame
    /\ arima_order = NoOrder
    /\ unit = NoColumns
    /\ shown = NoColumns

\* (mutation: the except clause reports the error and the script goes on)
Stop_GoesOn(at) ==
    /\ pagePc' = "present"
    /\ failedAt' = at

\* The except clause of a try block of the page: st.error, st.stop.
Stop(at) ==
    /\ pagePc' = "stopped"
    /\ failedAt' = at

\* Page lines 67-75: load, smooth, scale, and compute d.  MinMaxScaler
\* rejects an array with no rows; adfuller's outcomes are drawn here.
LoadData ==
    /\ pagePc = "load"
    /\ IF n = 0
       THEN /\ Stop("load")
            /\ UNCHANGED <<lastDate, scaler, d_order>>
       ELSE \E o \in [DiffTests -> AdfOutcomes], last \in 0..4 :
              LET r == get_differencing_order(o, n) IN
              /\ lastDate' = last
              /\ scaler' = "fitted"
              /\ IF r.raised
                 THEN Stop("load") /\ d_order' = d_order
                 ELSE /\ d_order' = r.d
                      /\ pagePc' = "evaluate"
                      /\ failedAt' = failedAt
    /\ UNCHANGED <<n, rmse, fitCount, finalFits, pending, clock, genIndex,
                   forecast_df, conf_df, arima_order, unit, shown>>

\* Page line 97: rmse = evaluate_model(scaled_data, d_order).
EvaluateModel ==
    /\ pagePc = "evaluate"
    /\ \E sel \in GridReturnsFor(TrainLen(n), d_order),
          finalOk \in FinalOutcomesFor(TrainLen(n)) :
         LET r == fit_model(TrainLen(n), d_order, HOLDOUT, sel, finalOk, "evaluate") IN
         /\ fitCount' = fitCount + r.fits
         /\ finalFits' = finalFits \o r.finals
         /\ IF r.raised \/ TestLen(n) # r.npred
            THEN Stop("train") /\ rmse' = rmse
            ELSE /\ rmse' = "value"
                 /\ pagePc' = "forecast"
                 /\ failedAt' = failedAt
    /\ UNCHANGED <<n, lastDate, scaler, d_order, pending, clock, genIndex,
                   forecast_df, conf_df, arima_order, unit, shown>>

\* Page line 98, get_forecast lines 139-140: the call of fit_model.
ForecastFit ==
    /\ pagePc = "forecast"
    /\ \E sel \in GridReturnsFor(n, d_order), finalOk \in FinalOutcomesFor(n) :
         LET r == fit_model(n, d_order, steps, sel, finalOk, "forecast") IN
         /\ fitCount' = fitCount + r.fits
         /\ finalFits' = finalFits \o r.finals
         /\ IF r.raised
            THEN Stop("train") /\ pending' = pending
            ELSE /\ pending' = [order |-> r.order, npred |-> r.npred, nconf |-> r.nconf]
                 /\ pagePc' = "frames"
                 /\ failedAt' = failedAt
    /\ UNCHANGED <<n, lastDate, scaler, d_order, rmse, clock, genIndex,
                   forecast_df, conf_df, arima_order, unit, shown>>

\* get_forecast lines 142-156: the index from the clock, trimmed to the
\* number of predictions, and the two frames on it.  pd.DataFrame raises
\* when a column and the index differ in length.
ForecastFrames ==
    /\ pagePc = "frames"
    /\ \E stale \in 0..MaxStale :
         LET now   == lastDate + stale
             gen   == date_range_B(now + 1, steps)
             index == Take(gen, pending.npred)
         IN  /\ clock' = now
             /\ genIndex' = gen
             /\ IF pending.npred # Len(index) \/ pending.nconf # Len(index)
                THEN /\ Stop("train")
                     /\ UNCHANGED <<forecast_df, conf_df, arima_order, unit>>
                ELSE /\ forecast_df' = [idx |-> index, ncols |-> 1]
                     /\ conf_df' = [idx |-> index, ncols |-> 2]
                     /\ arima_order' = pending.order
                     /\ unit' = [c \in Columns |-> "scaled"]
                     /\ pagePc' = "inverse"
                     /\ failedAt' = failedAt
    /\ UNCHANGED <<n, lastDate, scaler, d_order, rmse, fitCount, finalFits, pending,
                   shown>>

\* One of page lines 101-103: column col is replaced by its inverse
\* transform under the page's scaler (the one scaling returned at line 71).
\* The transform raises on values it rejects (infinite ones); the exception
\* reaches the except clause of the training block.
InverseColumn(at, col, then) ==
    /\ pagePc = at
    /\ scaler = "fitted"
    /\ \E accepted \in BOOLEAN :
         IF accepted
         THEN /\ unit' = [unit EXCEPT ![col] = "dollars"]
              /\ pagePc' = then
              /\ failedAt' = failedAt
         ELSE /\ Stop("train")
              /\ unit' = unit
    /\ UNCHANGED <<n, lastDate, scaler, d_order, rmse, fitCount, finalFits,
                   pending, clock, genIndex, forecast_df, conf_df, arima_order,
                   shown>>

\* Page line 101
InverseClose == InverseColumn("inverse", "Close", "inverseLower")
\* Page line 102
InverseLower == InverseColumn("inverseLower", "Lower", "inverseUpper")
\* Page line 103
InverseUpper == InverseColumn("inverseUpper", "Upper", "present")

\* Page lines 109-164: the metrics, the table and the chart render the
\* columns as the frames hold them.
Present ==
    /\ pagePc = "present"
    /\ shown' = unit
    /\ pagePc' = "presented"
    /\ UNCHANGED <<n, lastDate, scaler, d_order, failedAt, rmse, fitCount, finalFits,
                   pending, clock, genIndex, forecast_df, conf_df, arima_order,
                   unit>>

(***************************************************************************)
(* scaling, inverse_scaling and the values of the forecast band            *)
(*                                                                         *)
(* Prices are integers; a scaled value is a ratio [num, den] with den > 0, *)
(* so the arithmetic of MinMaxScaler is exact here (the rounding of        *)
(* binary64 is not modelled).                                              *)
(***************************************************************************)
\* Prices of the input series are in 1..MaxPrice
MaxPrice == 3

\* Lengths of the input series are in 0..MaxSeriesLen (and ConstantLen)
MaxSeriesLen == 3

\* Number of points of a forecast in SpecScale
BandRows == 2

\* Length of the constant series among the inputs
ConstantLen == HOLDOUT + 10

Ratio(a, b) == [num |-> a, den |-> b]

\* x <= y on ratios with positive denominators
RatioLe(x, y) == x.num * y.den <= y.num * x.den

\* x = y on ratios
RatioEq(x, y) == x.num * y.den = y.num * x.den

\* a ratio equals an integer
RatioIs(x, k) == x.num = k * x.den

SeqMin(x) == CHOOSE v \in {x[i] : i \in DOMAIN x} : \A i \in DOMAIN x : v <= x[i]
SeqMax(x) == CHOOSE v \in {x[i] : i \in DOMAIN x} : \A i \in DOMAIN x : v >= x[i]

\* MinMaxScaler(feature_range=(0, 1)) before fit, and after fit on data with
\* minimum lo and maximum hi
Unfitted == [fitted |-> FALSE, data_min |-> 0, data_max |-> 0]
Fitted(lo, hi) == [fitted |-> TRUE, data_min |-> lo, data_max |-> hi]

\* MinMaxScaler divides by data_max - data_min, with a zero range replaced
\* by 1 (scale_ = 1 / range, min_ = -data_min * scale_).
DataRange(st) ==
    IF st.data_max - st.data_min = 0 THEN 1 ELSE st.data_max - st.data_min

\* scaling(close_price): fit_transform raises on an array with no rows, else
\* returns X * scale_ + min_ = (X - data_min) / range and the fitted scaler.
scaling(x) ==
    IF Len(x) = 0
    THEN [raised |-> TRUE, scaled |-> <<>>, scaler |-> Unfitted]
    ELSE LET st == Fitted(SeqMin(x), SeqMax(x))
         IN  [raised |-> FALSE,
              scaled |-> [i \in 1..Len(x) |-> Ratio(x[i] - st.data_min, DataRange(st))],
              scaler |-> st]

\* (mutation: the inverse transform multiplies by the range and does not add
\* the minimum back)
InverseValue_NoShift(st, v) == Ratio(v.num * DataRange(st), v.den)

\* inverse_transform on one value: (X - min_) / scale_ = X * range + data_min
InverseValue(st, v) == Ratio(v.num * DataRange(st) + st.data_min * v.den, v.den)

\* inverse_scaling(scaler, scaled_data): the scaler is used as given; the
\* only scaler the library refuses is one that was never fitted.
inverse_scaling(st, scaled_data) ==
    IF ~st.fitted
    THEN [raised |-> TRUE, values |-> <<>>]
    ELSE [raised |-> FALSE,
          values |-> [i \in 1..Len(scaled_data) |-> InverseValue(st, scaled_data[i])]]

\* The scalers a caller of inverse_scaling can hold: one never fitted, or one
\* fitted on some series of prices.
ScalerStates ==
    {Unfitted} \cup
    {Fitted(b[1], b[2]) : b \in {c \in (1..MaxPrice) \X (1..MaxPrice) : c[1] <= c[2]}}

\* The input series: every sequence of up to MaxSeriesLen prices, and the
\* constant series of length ConstantLen.
ScaleInputs ==
    UNION {[1..k -> 1..MaxPrice] : k \in 0..MaxSeriesLen}
        \cup {[i \in 1..ConstantLen |-> v] : v \in 1..MaxPrice}

\* One point of forecast.predicted_mean and its row of
\* forecast.conf_int(alpha=0.05), in scaled units (halves): the library
\* computes the row as mean -/+ z * se with a standard error se >= 0.  The
\* mean may leave [0, 1].
BandPoints ==
    {[mean |-> Ratio(k, 2), ci |-> <<Ratio(k - w, 2), Ratio(k + w, 2)>>] :
        k \in {0 - 1, 0, 1, 3}, w \in {0, 1}}

\* (mutation: the columns of conf_int are swapped)
BandColumns_Swapped(rows) ==
    [c \in Columns |->
        [i \in 1..Len(rows) |->
            CASE c = "Close" -> rows[i].mean
              [] c = "Lower" -> rows[i].ci[2]
              [] c = "Upper" -> rows[i].ci[1]]]

\* get_forecast 149-154: Close = predictions, Lower = conf_int[:, 0],
\* Upper = conf_int[:, 1]
BandColumns(rows) ==
    [c \in Columns |->
        [i \in 1..Len(rows) |->
            CASE c = "Close" -> rows[i].mean
              [] c = "Lower" -> rows[i].ci[1]
              [] c = "Upper" -> rows[i].ci[2]]]

NoBand == [c \in Columns |-> <<>>]

InitScaleVars ==
    /\ close_price \in ScaleInputs
    /\ scalePc = "scale"
    /\ scaled = <<>>
    /\ own_scaler = Unfitted
    /\ inv_scaler = Unfitted
    /\ inv_values = <<>>
    /\ band = NoBand
    /\ band_dollars = NoBand

IdleScaleVars ==
    /\ close_price = <<>>
    /\ scalePc = "idle"
    /\ scaled = <<>>
    /\ own_scaler = Unfitted
    /\ inv_scaler = Unfitted
    /\ inv_values = <<>>
    /\ band = NoBand
    /\ band_dollars = NoBand

\* Page line 71: scaled_data, scaler = scaling(rolling_price)
ScalingCall ==
    /\ scalePc = "scale"
    /\ LET r == scaling(close_price) IN
         /\ scaled' = r.scaled
         /\ own_scaler' = r.scaler
         /\ scalePc' = IF r.raised THEN "raised" ELSE "scaled"
    /\ UNCHANGED <<close_price, inv_scaler, inv_values, band, band_dollars>>

\* A call inverse_scaling(st, scaled_data) with whatever scaler the caller
\* holds (page line 145 calls it with the run's own).
InverseCall ==
    /\ scalePc = "scaled"
    /\ \E st \in ScalerStates :
         LET r == inverse_scaling(st, scaled) IN
         /\ inv_scaler' = st
         /\ inv_values' = r.values
         /\ scalePc' = IF r.raised THEN "rejected" ELSE "inverted"
    /\ UNCHANGED <<close_price, scaled, own_scaler, band, band_dollars>>

\* fit_model 113-115 and get_forecast 149-154: the values of the forecast
\* and of its confidence interval, as the frames hold them.
ForecastBand ==
    /\ scalePc = "scaled"
    /\ \E rows \in [1..BandRows -> BandPoints] :
         band' = BandColumns(rows)
    /\ scalePc' = "forecast"
    /\ UNCHANGED <<close_price, scaled, own_scaler, inv_scaler, inv_values,
                   band_dollars>>

\* Page lines 101-103: each column is replaced by its inverse transform
\* under the run's scaler.
InverseBand ==
    /\ scalePc = "forecast"
    /\ band_dollars' = [c \in Columns |-> inverse_scaling(own_scaler, band[c]).values]
    /\ scalePc' = "dollars"
    /\ UNCHANGED <<close_price, scaled, own_scaler, inv_scaler, inv_values, band>>

InitSelect == InitSelectVars /\ IdleDiffVars /\ IdlePageVars /\ IdleScaleVars
NextSelect == GridStep /\ UNCHANGED <<diffVars, pageVars, scaleVars>>
SpecSelect == InitSelect /\ [][NextSelect]_vars

InitDiff == InitDiffVars /\ IdleSelectVars /\ IdlePageVars /\ IdleScaleVars
NextDiff == DiffIterate /\ UNCHANGED <<selVars, pageVars, scaleVars>>
SpecDiff == InitDiff /\ [][NextDiff]_vars

Init == InitPageVars /\ IdleSelectVars /\ IdleDiffVars /\ IdleScaleVars
Next ==
    \/ LoadData /\ UNCHANGED <<selVars, diffVars, scaleVars>>
    \/ EvaluateModel /\ UNCHANGED <<selVars, diffVars, scaleVars>>
    \/ ForecastFit /\ UNCHANGED <<selVars, diffVars, scaleVars>>
    \/ ForecastFrames /\ UNCHANGED <<selVars, diffVars, scaleVars>>
    \/ InverseClose /\ UNCHANGED <<selVars, diffVars, scaleVars>>
    \/ InverseLower /\ UNCHANGED <<selVars, diffVars, scaleVars>>
    \/ InverseUpper /\ UNCHANGED <<selVars, diffVars, scaleVars>>
    \/ Present /\ UNCHANGED <<selVars, diffVars, scaleVars>>
Spec == Init /\ [][Next]_vars

InitScale == InitScaleVars /\ IdleSelectVars /\ IdleDiffVars /\ IdlePageVars
NextScale ==
    \/ ScalingCall /\ UNCHANGED <<selVars, diffVars, pageVars>>
    \/ InverseCall /\ UNCHANGED <<selVars, diffVars, pageVars>>
    \/ ForecastBand /\ UNCHANGED <<selVars, diffVars, pageVars>>
    \/ InverseBand /\ UNCHANGED <<selVars, diffVars, pageVars>>
SpecScale == InitScale /\ [][NextScale]_vars

(***************************************************************************)
(* Properties of _best_arima_order (checked under SpecSelect)              *)
(***************************************************************************)
Attempts     == 1..Len(fitLog)
Succeeded(i) == fitLog[i].out.ok
AicOf(i)     == fitLog[i].out.aic
OrderOf(i)   == <<fitLog[i].p, sel_d, fitLog[i].q>>
Returned     == selPc = "returned"
Fallback     == <<20, sel_d, 10>>

\* C1 (as claimed): whenever at least one candidate fit succeeded, the
\* returned order is (p, d, q) with the supplied d and (p, q) a candidate
\* whose fit succeeded and that no other succeeded candidate beats on AIC.
C1_ReturnsBestSucceeded ==
    (Returned /\ \E i \in Attempts : Succeeded(i)) =>
        /\ sel_ret[2] = sel_d
        /\ \E i \in Attempts :
              /\ Succeeded(i)
              /\ sel_ret = OrderOf(i)
              /\ \A j \in Attempts : Succeeded(j) => ~Lt(AicOf(j), AicOf(i))

\* What the code does guarantee: the same, when some succeeded fit reported
\* an AIC below +inf (a finite number).
SelectOrder_BestAmongFinite ==
    (Returned /\ \E i \in Attempts : Succeeded(i) /\ AicOf(i).kind = "num") =>
        /\ sel_ret[2] = sel_d
        /\ \E i \in Attempts :
              /\ Succeeded(i)
              /\ sel_ret = OrderOf(i)
              /\ \A j \in Attempts : Succeeded(j) => ~Lt(AicOf(j), AicOf(i))

\* The call as a whole (best_arima_order, used by the page run) returns what
\* the iterations return, for the same fit outcomes.
GridRunAgrees ==
    Returned =>
        LET r == best_arima_order([i \in 1..NumCand |-> fitLog[i].out], sel_d)
        IN  r.order = sel_ret /\ r.fits = Len(fitLog)

\* i reported a finite AIC that no succeeded candidate beats
Lowest(i) ==
    /\ Succeeded(i)
    /\ AicOf(i).kind = "num"
    /\ \A j \in Attempts : Succeeded(j) => ~Lt(AicOf(j), AicOf(i))

\* C2: among the succeeded candidates that share the lowest AIC, the one
\* first in iteration order is returned; a later candidate with an equal AIC
\* does not replace it.
C2_FirstWinsTies ==
    Returned =>
        \A i \in Attempts :
            ( /\ Lowest(i)
              /\ \A j \in 1..(i - 1) : ~(Succeeded(j) /\ AicOf(j) = AicOf(i)) )
            => sel_ret = OrderOf(i)

C2_Witness ==
    /\ Returned
    /\ \E i, j \in Attempts :
          /\ i < j
          /\ Lowest(i) /\ Lowest(j)
          /\ \A k \in 1..(i - 1) : ~(Succeeded(k) /\ AicOf(k) = AicOf(i))
          /\ sel_ret = OrderOf(i)
          /\ \E k \in 1..(i - 1) : ~Succeeded(k)

\* C3: when every one of the 9 fits failed, the call still returns (it does
\* not raise), and returns the fallback (20, d, 10) with the supplied d.
C3_AllFailReturnsFallback ==
    (Len(fitLog) = NumCand /\ \A i \in Attempts : ~Succeeded(i)) =>
        Returned /\ sel_ret = Fallback

C3_Witness ==
    /\ Returned
    /\ Len(fitLog) = NumCand
    /\ \A i \in Attempts : ~Succeeded(i)
    /\ sel_ret = <<20, MAX_DIFF, 10>>

\* No (p, q) occurs twice in the iteration order.
CandidatesDistinct == \A i, j \in 1..NumCand : Cand(i) = Cand(j) => i = j

FiniteOk(i) == Succeeded(i) /\ AicOf(i).kind = "num"

\* C17 (as claimed): (20, 10) is never fitted as a grid candidate, and a
\* returned (20, d, 10) means that every candidate failed.
C17_FallbackOutsideGrid ==
    /\ \A i \in Attempts : ~(fitLog[i].p = 20 /\ fitLog[i].q = 10)
    /\ (Returned /\ sel_ret = Fallback) => \A i \in Attempts : ~Succeeded(i)

\* C17 (amended): (20, 10) is the last candidate of the grid and is fitted
\* as the 9th attempt; (20, d, 10) is returned exactly when no succeeded fit
\* reported a finite AIC, or the fit of (20, 10) succeeded with a finite AIC
\* strictly below that of every earlier succeeded candidate.
C17_FallbackIsLastCandidate ==
    /\ Cand(NumCand) = [p |-> 20, q |-> 10]
    /\ Returned =>
          /\ fitLog[NumCand].p = 20 /\ fitLog[NumCand].q = 10
          /\ sel_ret = Fallback <=>
                \/ \A i \in Attempts : ~FiniteOk(i)
                \/ /\ FiniteOk(NumCand)
                   /\ \A i \in 1..(NumCand - 1) :
                         FiniteOk(i) => Lt(AicOf(NumCand), AicOf(i))

C17_Witness ==
    /\ Returned
    /\ sel_ret = Fallback
    /\ Succeeded(1) /\ ~FiniteOk(1)
    /\ FiniteOk(NumCand)
    /\ fitLog[NumCand].p = 20 /\ fitLog[NumCand].q = 10

(***************************************************************************)
(* Properties of get_differencing_order (checked under SpecDiff)           *)
(***************************************************************************)
\* The input differenced k times passes the stationarity test: the test
\* returns a p-value, and the p-value (as stationary_check reports it) is at
\* most 0.05.
StationaryAt(k) ==
    LET s == [len |-> IF series.len + series.ndiff >= k
                      THEN series.len + series.ndiff - k ELSE 0,
              ndiff |-> k]
        res == Adfuller(s)
    IN  ~res.raised /\ Le(stationary_check(res), Num(ALPHA))

DiffReturned == diffPc = "returned"

\* The call as a whole (get_differencing_order, used by the page run) returns
\* what the iterations return, for the same adfuller outcomes.
DiffRunAgrees ==
    LET r == get_differencing_order(adf, series.len + series.ndiff) IN
    /\ DiffReturned => (~r.raised /\ r.d = df_ret)
    /\ diffPc = "raised" => r.raised

\* C6: the returned d is the smallest k in {0, 1, 2} for which the series
\* differenced k times has p-value <= 0.05, and 3 when there is none; 3 is
\* an ordinary return value.
C6_SmallestStationaryOrder ==
    DiffReturned =>
        /\ df_ret = df_d
        /\ series.ndiff = df_ret
        /\ IF \E k \in 0..(MAX_DIFF - 1) : StationaryAt(k)
           THEN /\ df_ret \in 0..(MAX_DIFF - 1)
                /\ StationaryAt(df_ret)
                /\ \A k \in 0..(df_ret - 1) : ~StationaryAt(k)
           ELSE df_ret = MAX_DIFF

C6_Witness ==
    /\ DiffReturned
    /\ df_ret = 2
    /\ adf[0] = AdfP(NaN)
    /\ adf[1] = AdfP(Num(5006))
    /\ adf[2] = AdfP(Num(5004))

C14_ConstantSeriesYieldsZero ==
    (constant /\ series.len + series.ndiff >= 40 /\ diffPc # "loop") =>
        (DiffReturned /\ df_ret = 0)

\* On a constant series the call raises or returns the cap, never 0.
ConstantSeriesNeverZero ==
    (constant /\ series.len + series.ndiff >= 40 /\ DiffReturned) => df_ret = MAX_DIFF

(***************************************************************************)
(* Properties of the page run (checked under Spec)                         *)
(***************************************************************************)
FinalFitIdx == 1..Len(finalFits)

\* get_forecast has returned its frames to the page
AfterForecast == {"inverse", "inverseLower", "inverseUpper", "present", "presented"}

ForecastReturned == pagePc \in AfterForecast

\* C5: a failed final fit (the fit with the chosen order, in evaluate or in
\* forecast) ends the request as a failure: it is the last fit of the run
\* (not retried, no other order fitted in its place), the page is stopped by
\* the training except clause, and no forecast (and, for evaluate, no RMSE)
\* comes back.  Each call of fit_model makes its grid fits and one final fit.
C5_FinalFitFailureIsFatal ==
    /\ fitCount = Len(finalFits) * (NumCand + 1)
    /\ \A i \in FinalFitIdx :
          ~finalFits[i].ok =>
              /\ i = Len(finalFits)
              /\ pagePc = "stopped"
              /\ failedAt = "train"
              /\ forecast_df = NoFrame
              /\ conf_df = NoFrame
              /\ arima_order = NoOrder
              /\ finalFits[i].stage = "evaluate" => rmse = "none"

C5_Witness ==
    /\ pagePc = "stopped"
    /\ Len(finalFits) = 2
    /\ finalFits[1].ok
    /\ ~finalFits[2].ok
    /\ finalFits[2].stage = "forecast"
    /\ finalFits[2].order = <<5, d_order, 0>>

ConsecutiveBDays(idx) ==
    /\ \A i \in 1..Len(idx) : IsBDay(idx[i])
    /\ \A i \in 1..(Len(idx) - 1) :
          /\ idx[i] < idx[i + 1]
          /\ \A x \in (idx[i] + 1)..(idx[i + 1] - 1) : ~IsBDay(x)

\* C9 (as claimed): the forecast's timestamps are consecutive business days
\* that start the day after the latest timestamp of the input series (on the
\* first business day from that day on).
C9_StartsAfterLatestTimestamp ==
    ForecastReturned =>
        /\ ConsecutiveBDays(forecast_df.idx)
        /\ forecast_df.idx[1] = RollForward(lastDate + 1)

\* C9 (amended): the forecast's timestamps are consecutive business days,
\* strictly increasing, that start on the first business day from the day
\* after the clock's current day on; the first timestamp is determined by
\* the clock, not by the series.
C9_BusinessDaysFromClock ==
    ForecastReturned =>
        /\ Len(forecast_df.idx) > 0
        /\ ConsecutiveBDays(forecast_df.idx)
        /\ forecast_df.idx[1] = RollForward(clock + 1)
        /\ forecast_df.idx[1] > clock

C9_Witness ==
    /\ ForecastReturned
    /\ lastDate = 3
    /\ clock = 4
    /\ forecast_df.idx[1] = 7
    /\ forecast_df.idx[2] = 8
    /\ forecast_df.idx[6] = 14

\* The series is shorter than the holdout plus the largest lag searched.
TooShort(len) == len < HOLDOUT + p_candidates[Len(p_candidates)]

\* C10 (as claimed): on an empty or too short series no grid-search fit and
\* no final fit is attempted.
C10_NoFitOnBadSeries == TooShort(n) => fitCount = 0

\* both calls of fit_model (evaluate_model's and get_forecast's) have returned
BothReturned == pagePc \in {"frames"} \cup AfterForecast

\* C16 (as claimed): a run that evaluates and forecasts attempts 11 fits:
\* the 9 of the grid, one for evaluation and one for the forecast.
C16_ElevenFits == BothReturned => fitCount = 11

\* C16 (amended): a run that evaluates and forecasts attempts 20 fits: each
\* of the two calls of fit_model runs the 9 fits of the grid search and one
\* final fit with the order it chose.
C16_TwentyFits ==
    /\ BothReturned =>
          /\ fitCount = 2 * (NumCand + 1)
          /\ Len(finalFits) = 2
          /\ finalFits[1].stage = "evaluate" /\ finalFits[1].len = TrainLen(n)
          /\ finalFits[2].stage = "forecast" /\ finalFits[2].len = n
    /\ pagePc = "forecast" => fitCount = NumCand + 1

C16_Witness ==
    /\ pagePc = "presented"
    /\ fitCount = 20
    /\ Len(finalFits) = 2

Rendered == \E c \in Columns : shown[c] # "none"

\* C12: the page never renders a partial or mixed-scale forecast: what it
\* renders is all three columns (predicted, lower, upper), each scaled back
\* with the scaler of the same run, after a run without failure; when the
\* evaluation, the forecast or one of the inverse transforms fails, nothing
\* of the forecast is rendered, whatever the frames hold at that moment.
C12_AllOrNothing ==
    /\ Rendered =>
          /\ \A c \in Columns : shown[c] = "dollars"
          /\ scaler = "fitted"
          /\ failedAt = ""
          /\ rmse = "value"
    /\ (failedAt # "" \/ pagePc = "stopped") => ~Rendered
    /\ pagePc = "presented" => Rendered

C12_Witness ==
    /\ pagePc = "stopped"
    /\ failedAt = "train"
    /\ unit["Close"] = "dollars"
    /\ unit["Lower"] = "scaled"
    /\ ~Rendered

(***************************************************************************)
(* Properties of scaling and inverse_scaling (checked under SpecScale)     *)
(***************************************************************************)
ScalingReturned == scalePc \in {"scaled", "inverted", "rejected", "forecast", "dollars"}

\* C11 (as claimed): a call of inverse_transform with a scaler state that
\* is not the one the run's fit_transform produced is rejected: it returns
\* no values.
C11_ForeignScalerRejected ==
    (scalePc \in {"inverted", "rejected"} /\ inv_scaler # own_scaler) =>
        (scalePc = "rejected" /\ inv_values = <<>>)

\* Only a scaler that was never fitted is rejected; with a scaler fitted on
\* other data the call returns values on that scaler's range.
OnlyUnfittedRejected ==
    /\ scalePc = "rejected" => inv_scaler = Unfitted
    /\ scalePc = "inverted" =>
          /\ inv_scaler.fitted
          /\ \A i \in DOMAIN inv_values :
                RatioEq(inv_values[i],
                        Ratio((close_price[i] - own_scaler.data_min) * DataRange(inv_scaler)
                                  + inv_scaler.data_min * DataRange(own_scaler),
                              DataRange(own_scaler)))

ConstantSeriesScalesToZero ==
    (scalePc # "scale" /\ Len(close_price) = ConstantLen) =>
        /\ ScalingReturned
        /\ \A i \in DOMAIN scaled : RatioIs(scaled[i], 0)

BandOrdered(b) ==
    \A i \in DOMAIN b["Close"] :
        /\ RatioLe(b["Lower"][i], b["Close"][i])
        /\ RatioLe(b["Close"][i], b["Upper"][i])

\* C15: at every point of a forecast lower <= predicted <= upper, in the
\* frames get_forecast returns and again after the page has scaled the
\* three columns back to prices.
C15_BandOrdered ==
    /\ scalePc \in {"forecast", "dollars"} =>
          /\ Len(band["Close"]) = BandRows
          /\ Len(band["Lower"]) = BandRows
          /\ Len(band["Upper"]) = BandRows
          /\ BandOrdered(band)
    /\ scalePc = "dollars" =>
          /\ \A c \in Columns : Len(band_dollars[c]) = BandRows
          /\ BandOrdered(band_dollars)

C15_Witness ==
    /\ scalePc = "dollars"
    /\ own_scaler = Fitted(1, 3)
    /\ band["Lower"][1] = Ratio(2, 2)
    /\ band["Close"][1] = Ratio(3, 2)
    /\ band["Upper"][1] = Ratio(4, 2)
    /\ band_dollars["Lower"][1] = Ratio(6, 2)
    /\ band_dollars["Close"][1] = Ratio(8, 2)
    /\ band_dollars["Upper"][1] = Ratio(10, 2)

====
